---- MODULE Spec2Model ----
(***************************************************************************)
(* Model of the fiscal-document XML analyser: src/analysis_engine.py (the  *)
(* in-memory engine driven by src/api.py) and the stand-alone variant      *)
(* src/analise-xml.py.                                                     *)
(*                                                                         *)
(* A Python str is a tuple of one-character strings, so that startswith,   *)
(* isdigit, int, strip, str and the ordering used by sorted() are computed *)
(* character by character.                                                 *)
(***************************************************************************)
EXTENDS Integers, Sequences, FiniteSets, TLC

VARIABLES
    unit,                  \* one call of a pure helper: [op, arg, done, out]
    pc,                    \* where the request (or the stand-alone run) stands
    request,               \* the upload, or the environment of a stand-alone run
    dirs,                  \* directories that exist under RESULTS_FOLDER/job_id
    xml_files_in_memory,   \* filename -> parsed-or-not content
    numeros_para_copiar,   \* set of int
    futures,               \* filenames whose extraction has not completed
    lista_dados_notas,     \* list of DadosNota
    idx,                   \* position of the copy loop in lista_dados_notas
    pasta_copiados,        \* files under xmls_copiados/: filename -> content
    resumo,                \* resumo_analise.txt
    csv,                   \* relatorio_detalhado.csv
    zip,                   \* resultados_*.zip
    raised,                \* the exception on its way to analyze_files
    response               \* what analyze_files returns

pipeline == <<pc, request, dirs, xml_files_in_memory, numeros_para_copiar, futures,
              lista_dados_notas, idx, pasta_copiados, resumo, csv, zip, raised,
              response>>

vars == <<unit, pipeline>>

(***************************************************************************)
(* Files and messages that do not exist yet.                               *)
(***************************************************************************)
NoRequest == [kind |-> "none", entries |-> <<>>, numerosParaCopiar |-> <<>>]

NoResumo ==
    [exists |-> FALSE, complete |-> FALSE, total_xmls |-> 0, com_erro |-> 0,
     status |-> <<>>, series |-> <<>>]

NoCsv == [exists |-> FALSE, complete |-> FALSE, rows |-> <<>>]

NoZip == [exists |-> FALSE, resumo |-> NoResumo, csv |-> NoCsv, xmls_copiados |-> <<>>]

NoResponse == [code |-> 0, error |-> "", summary |-> NoResumo, downloadUrl |-> FALSE]

\* No request is being served (the specifications of the pure helpers).
PipelineIdle ==
    /\ pc = "idle"
    /\ request = NoRequest
    /\ dirs = {}
    /\ xml_files_in_memory = <<>>
    /\ numeros_para_copiar = {}
    /\ futures = {}
    /\ lista_dados_notas = <<>>
    /\ idx = 0
    /\ pasta_copiados = <<>>
    /\ resumo = NoResumo
    /\ csv = NoCsv
    /\ zip = NoZip
    /\ raised = "none"
    /\ response = NoResponse

(***************************************************************************)
(* Bounds of the model.                                                    *)
(***************************************************************************)
MaxCodeLen == 3      \* longest status code handed to the classifier
MaxNum == 10         \* largest document number of a sequence analysis
MaxLen == 4          \* longest list of numbers of a sequence analysis
MaxFiles == 2        \* most files of one upload

(***************************************************************************)
(* Python str primitives.                                                  *)
(***************************************************************************)
DecimalChars == {"0", "1", "2", "3", "4", "5", "6", "7", "8", "9"}

\* U+00B2 has Numeric_Type=Digit but is no decimal: isdigit() accepts it,
\* int() rejects it.
DigitChars == DecimalChars \cup {"²"}

Whitespace == {" "}

DecimalValue(c) ==
    CASE c = "0" -> 0 [] c = "1" -> 1 [] c = "2" -> 2 [] c = "3" -> 3
      [] c = "4" -> 4 [] c = "5" -> 5 [] c = "6" -> 6 [] c = "7" -> 7
      [] c = "8" -> 8 [] c = "9" -> 9

\* Unicode code points of the characters the model uses (the order of str <).
CodePoint(c) ==
    CASE c = " " -> 32 [] c = "(" -> 40 [] c = ")" -> 41 [] c = "," -> 44
      [] c = "-" -> 45 [] c = "?" -> 63
      [] c \in DecimalChars -> 48 + DecimalValue(c)
      [] c = "A" -> 65 [] c = "C" -> 67 [] c = "D" -> 68 [] c = "F" -> 70
      [] c = "I" -> 73 [] c = "N" -> 78 [] c = "R" -> 82 [] c = "S" -> 83
      [] c = "a" -> 97 [] c = "c" -> 99 [] c = "d" -> 100 [] c = "e" -> 101
      [] c = "h" -> 104 [] c = "i" -> 105 [] c = "j" -> 106 [] c = "l" -> 108
      [] c = "m" -> 109 [] c = "n" -> 110 [] c = "o" -> 111 [] c = "r" -> 114
      [] c = "s" -> 115 [] c = "t" -> 116 [] c = "u" -> 117 [] c = "z" -> 122
      [] c = "²" -> 178 [] c = "ã" -> 227 [] c = "ç" -> 231

\* str.isdigit(): non-empty and every character is a digit.
isdigit(s) == Len(s) > 0 /\ \A k \in 1..Len(s) : s[k] \in DigitChars

\* The outcome of int(s) when s is no decimal literal.
ValueError == -1

RECURSIVE DecimalFold(_, _)
DecimalFold(s, acc) ==
    IF s = <<>> THEN acc
    ELSE DecimalFold(Tail(s), 10 * acc + DecimalValue(Head(s)))

\* int(s) for a string that passed isdigit(): the decimal value, or
\* ValueError when a character is a digit that is no decimal.
int(s) ==
    IF Len(s) > 0 /\ \A k \in 1..Len(s) : s[k] \in DecimalChars
    THEN DecimalFold(s, 0)
    ELSE ValueError

DigitOf(d) ==
    CASE d = 0 -> "0" [] d = 1 -> "1" [] d = 2 -> "2" [] d = 3 -> "3"
      [] d = 4 -> "4" [] d = 5 -> "5" [] d = 6 -> "6" [] d = 7 -> "7"
      [] d = 8 -> "8" [] d = 9 -> "9"

\* str(n) for a non-negative integer.
RECURSIVE str(_)
str(n) == IF n < 10 THEN <<DigitOf(n)>> ELSE str(n \div 10) \o <<DigitOf(n % 10)>>

\* s.startswith(prefixes) for one-character prefixes.
startswith(s, prefixes) == Len(s) > 0 /\ s[1] \in prefixes

RECURSIVE lstrip(_)
lstrip(s) == IF s # <<>> /\ Head(s) \in Whitespace THEN lstrip(Tail(s)) ELSE s

RECURSIVE rstrip(_)
rstrip(s) ==
    IF s # <<>> /\ s[Len(s)] \in Whitespace
    THEN rstrip(SubSeq(s, 1, Len(s) - 1))
    ELSE s

strip(s) == rstrip(lstrip(s))

\* a < b for two str (lexicographic, by code point).
RECURSIVE StrLess(_, _)
StrLess(a, b) ==
    IF b = <<>> THEN FALSE
    ELSE IF a = <<>> THEN TRUE
    ELSE IF Head(a) # Head(b) THEN CodePoint(Head(a)) < CodePoint(Head(b))
    ELSE StrLess(Tail(a), Tail(b))

(***************************************************************************)
(* Document-type labels.                                                   *)
(***************************************************************************)
Desconhecido == <<"D","e","s","c","o","n","h","e","c","i","d","o">>
NFeAutorizada == <<"N","F","e"," ","A","u","t","o","r","i","z","a","d","a">>
NFeCancelada == <<"N","F","e"," ","C","a","n","c","e","l","a","d","a">>
NFeInutilizada == <<"N","F","e"," ","I","n","u","t","i","l","i","z","a","d","a">>
RejeicaoPrefixo ==
    <<"N","F","e"," ","c","o","m"," ","R","e","j","e","i","ç","ã","o"," ","(">>
StatusDesconhecidoPrefixo ==
    <<"S","t","a","t","u","s"," ","D","e","s","c","o","n","h","e","c","i","d","o"," ","(">>

\* f"NFe com Rejeição ({cstat})" and f"Status Desconhecido ({cstat})"
Rejeicao(cstat) == RejeicaoPrefixo \o cstat \o <<")">>
StatusDesconhecido(cstat) == StatusDesconhecidoPrefixo \o cstat \o <<")">>

(***************************************************************************)
(* _mapear_cstat_para_tipo                                                 *)
(***************************************************************************)
mapping ==
    (<<"1","0","0">> :> NFeAutorizada) @@
    (<<"1","0","1">> :> NFeCancelada) @@
    (<<"1","3","5">> :> NFeCancelada) @@
    (<<"1","0","2">> :> NFeInutilizada)

\* Mutant: code 135 (cancellation event) left out of the table.
mapear_sem_135(cstat) ==
    IF cstat \in (DOMAIN mapping) \ {<<"1","3","5">>} THEN mapping[cstat]
    ELSE IF cstat # <<>> /\ startswith(cstat, {"2", "3"}) THEN Rejeicao(cstat)
    ELSE StatusDesconhecido(cstat)

\* Mutant: the empty code answered with the record's default label.
mapear_vazio_desconhecido(cstat) ==
    IF cstat \in DOMAIN mapping THEN mapping[cstat]
    ELSE IF cstat = <<>> THEN Desconhecido
    ELSE IF startswith(cstat, {"2", "3"}) THEN Rejeicao(cstat)
    ELSE StatusDesconhecido(cstat)

_mapear_cstat_para_tipo(cstat) ==
    IF cstat \in DOMAIN mapping THEN mapping[cstat]
    ELSE IF cstat # <<>> /\ startswith(cstat, {"2", "3"}) THEN Rejeicao(cstat)
    ELSE StatusDesconhecido(cstat)

\* The stand-alone variant: a chain of comparisons, no table.
cli_mapear_cstat_para_tipo(cstat) ==
    IF cstat = <<"1","0","0">> THEN NFeAutorizada
    ELSE IF cstat \in {<<"1","0","1">>, <<"1","3","5">>} THEN NFeCancelada
    ELSE IF cstat = <<"1","0","2">> THEN NFeInutilizada
    ELSE IF startswith(cstat, {"2"}) \/ startswith(cstat, {"3"}) THEN Rejeicao(cstat)
    ELSE StatusDesconhecido(cstat)

(***************************************************************************)
(* Specification of the classifier: every code over CodeChars of length    *)
(* at most MaxCodeLen is classified by the engine and by the variant.      *)
(***************************************************************************)
CodeChars == {"0", "1", "2", "3", "5"}

RECURSIVE StringsUpTo(_, _)
StringsUpTo(chars, n) ==
    IF n = 0 THEN {<<>>}
    ELSE LET shorter == StringsUpTo(chars, n - 1)
         IN  shorter \cup {<<c>> \o s : c \in chars, s \in {t \in shorter : Len(t) = n - 1}}

CodeStrings == StringsUpTo(CodeChars, MaxCodeLen)

ClassifyInit ==
    /\ unit \in [op : {"cstat"}, arg : CodeStrings, done : {FALSE}, out : {<<>>}]
    /\ PipelineIdle

Classify ==
    /\ unit.op = "cstat"
    /\ ~unit.done
    /\ unit' = [unit EXCEPT !.done = TRUE, !.op = "engine",
                            !.out = _mapear_cstat_para_tipo(unit.arg)]
    /\ UNCHANGED pipeline

ClassifyCli ==
    /\ unit.op = "cstat"
    /\ ~unit.done
    /\ unit' = [unit EXCEPT !.done = TRUE, !.op = "cli",
                            !.out = cli_mapear_cstat_para_tipo(unit.arg)]
    /\ UNCHANGED pipeline

ClassifyNext == Classify \/ ClassifyCli

ClassifySpec == ClassifyInit /\ [][ClassifyNext]_vars

Classified == unit.done /\ unit.op \in {"engine", "cli"}

InTable(c) == c \in {<<"1","0","0">>, <<"1","0","1">>, <<"1","3","5">>, <<"1","0","2">>}

\* C1: the classifier answers every code; 100 is Authorized, 101 and 135 are
\* Cancelled, 102 is Inutilized, and every other code starting with 2 or 3
\* is Rejected with the literal code embedded.
C1_ClassifierTable ==
    Classified =>
        LET c == unit.arg
            t == unit.out
        IN  /\ t # <<>>
            /\ c = <<"1","0","0">> => t = NFeAutorizada
            /\ c \in {<<"1","0","1">>, <<"1","3","5">>} => t = NFeCancelada
            /\ c = <<"1","0","2">> => t = NFeInutilizada
            /\ (~InTable(c) /\ c # <<>> /\ c[1] \in {"2", "3"}) =>
                   /\ Len(t) = Len(RejeicaoPrefixo) + Len(c) + 1
                   /\ SubSeq(t, 1, Len(RejeicaoPrefixo)) = RejeicaoPrefixo
                   /\ SubSeq(t, Len(RejeicaoPrefixo) + 1, Len(t) - 1) = c
                   /\ t[Len(t)] = ")"

C1_Witness ==
    /\ Classified
    /\ unit.op = "engine"
    /\ unit.arg = <<"2","0","5">>
    /\ unit.out = RejeicaoPrefixo \o <<"2","0","5",")">>

\* C2 as stated: the empty code is answered with the plain default label
\* "Desconhecido", and "Status Desconhecido (code)" only for non-empty codes.
C2_EmptyIsPlainUnknown ==
    Classified =>
        /\ unit.arg = <<>> => unit.out = Desconhecido
        /\ (Len(unit.out) > Len(StatusDesconhecidoPrefixo)
              /\ SubSeq(unit.out, 1, Len(StatusDesconhecidoPrefixo))
                     = StatusDesconhecidoPrefixo)
             => unit.arg # <<>>

\* C2 amended: the empty code is answered "Status Desconhecido ()", never the
\* plain default label; "Status Desconhecido (code)" is the answer exactly
\* for the codes, the empty one included, that are neither in the table nor
\* start with 2 or 3.
C2_EmptyIsUnknownStatus ==
    Classified =>
        LET c == unit.arg
            t == unit.out
            fallback == ~InTable(c) /\ ~(c # <<>> /\ c[1] \in {"2", "3"})
        IN  /\ t # Desconhecido
            /\ c = <<>> => t = StatusDesconhecidoPrefixo \o <<")">>
            /\ fallback <=> t = StatusDesconhecidoPrefixo \o c \o <<")">>

C2_Witness ==
    /\ Classified
    /\ unit.op = "engine"
    /\ unit.arg = <<>>
    /\ unit.out = StatusDesconhecidoPrefixo \o <<")">>

(***************************************************************************)
(* sorted() over integers, and the sequence analysis of one (model, series)*)
(* group as gerar_relatorios computes it.                                  *)
(***************************************************************************)
RECURSIVE InsertInt(_, _)
InsertInt(x, s) ==
    IF s = <<>> THEN <<x>>
    ELSE IF x < Head(s) THEN <<x>> \o s
    ELSE <<Head(s)>> \o InsertInt(x, Tail(s))

RECURSIVE sorted_int(_)
sorted_int(s) ==
    IF s = <<>> THEN <<>>
    ELSE InsertInt(s[Len(s)], sorted_int(SubSeq(s, 1, Len(s) - 1)))

\* sorted(list(a_set)) for a set of integers.
RECURSIVE sorted_set(_)
sorted_set(S) ==
    IF S = {} THEN <<>>
    ELSE LET m == CHOOSE x \in S : \A y \in S : x <= y
         IN  <<m>> \o sorted_set(S \ {m})

set(s) == {s[k] : k \in 1..Len(s)}

\* range(a, b) as a set.
range(a, b) == {n \in a..(b - 1) : TRUE}

\* sep.join(parts)
RECURSIVE join(_, _)
join(sep, parts) ==
    IF parts = <<>> THEN <<>>
    ELSE IF Len(parts) = 1 THEN parts[1]
    ELSE parts[1] \o sep \o join(sep, Tail(parts))

\* Mutant: every run, also an isolated number, is written "start-end".
IntervaloSempreFaixa(inicio_intervalo, fim_intervalo) ==
    str(inicio_intervalo) \o <<"-">> \o str(fim_intervalo)

\* str(inicio) if inicio == fim else f"{inicio}-{fim}"
Intervalo(inicio_intervalo, fim_intervalo) ==
    IF inicio_intervalo = fim_intervalo THEN str(inicio_intervalo)
    ELSE str(inicio_intervalo) \o <<"-">> \o str(fim_intervalo)

\* The for loop of agrupar_lacunas from index i (1-based) on.
RECURSIVE AgruparLoop(_, _, _, _)
AgruparLoop(numeros, i, resultado, inicio_intervalo) ==
    IF i > Len(numeros)
    THEN Append(resultado, Intervalo(inicio_intervalo, numeros[Len(numeros)]))
    ELSE IF numeros[i] # numeros[i - 1] + 1
    THEN AgruparLoop(numeros, i + 1,
                     Append(resultado, Intervalo(inicio_intervalo, numeros[i - 1])),
                     numeros[i])
    ELSE AgruparLoop(numeros, i + 1, resultado, inicio_intervalo)

agrupar_lacunas(numeros) ==
    IF numeros = <<>> THEN <<>>
    ELSE LET ordenados == sorted_int(numeros)
         IN  join(<<",", " ">>, AgruparLoop(ordenados, 2, <<>>, ordenados[1]))

COMPLETA == "COMPLETA"
INCOMPLETA == "INCOMPLETA"

\* Mutant: the span taken from the list as it arrives, without sorting it.
AnaliseSerieSemOrdenar(numeros_das_notas) ==
    LET numeros == numeros_das_notas
        min_n == numeros[1]
        max_n == numeros[Len(numeros)]
        intervalo_total == range(min_n, max_n + 1)
        faltantes == sorted_set(intervalo_total \ set(numeros))
    IN  [min_n |-> min_n, max_n |-> max_n, qtde |-> Len(numeros),
         faltantes |-> faltantes,
         total_no_intervalo |-> Cardinality(intervalo_total),
         situacao |-> IF Len(faltantes) = 0 THEN COMPLETA ELSE INCOMPLETA,
         lacunas |-> IF Len(faltantes) > 0 THEN agrupar_lacunas(faltantes) ELSE <<>>]

\* The body of the per-series loop of the summary: numeros_das_notas is
\* [int(n.numero_inicial) for n in notas], never empty.
AnaliseSerie(numeros_das_notas) ==
    LET numeros == sorted_int(numeros_das_notas)
        min_n == numeros[1]
        max_n == numeros[Len(numeros)]
        intervalo_total == range(min_n, max_n + 1)
        faltantes == sorted_set(intervalo_total \ set(numeros))
    IN  [min_n |-> min_n, max_n |-> max_n, qtde |-> Len(numeros),
         faltantes |-> faltantes,
         total_no_intervalo |-> Cardinality(intervalo_total),
         situacao |-> IF Len(faltantes) = 0 THEN COMPLETA ELSE INCOMPLETA,
         lacunas |-> IF Len(faltantes) > 0 THEN agrupar_lacunas(faltantes) ELSE <<>>]

(***************************************************************************)
(* Specification of the sequence analysis: every list of at most MaxLen    *)
(* numbers of 0..MaxNum is analysed as one group, and rendered by          *)
(* agrupar_lacunas.                                                        *)
(***************************************************************************)
RECURSIVE ListsUpTo(_, _)
ListsUpTo(S, n) ==
    IF n = 0 THEN {<<>>}
    ELSE LET shorter == ListsUpTo(S, n - 1)
         IN  shorter \cup {Append(s, x) : x \in S, s \in {t \in shorter : Len(t) = n - 1}}

NumberLists == ListsUpTo(0..MaxNum, MaxLen)

NoAnalysis ==
    [min_n |-> 0, max_n |-> 0, qtde |-> 0, faltantes |-> <<>>,
     total_no_intervalo |-> 0, situacao |-> "", lacunas |-> <<>>]

GapInit ==
    /\ unit \in [op : {"numeros"}, arg : NumberLists, done : {FALSE}, out : {NoAnalysis}]
    /\ PipelineIdle

AnalisarSerie ==
    /\ unit.op = "numeros"
    /\ ~unit.done
    /\ unit.arg # <<>>
    /\ unit' = [unit EXCEPT !.done = TRUE, !.op = "serie",
                            !.out = AnaliseSerie(unit.arg)]
    /\ UNCHANGED pipeline

AgruparLacunas ==
    /\ unit.op = "numeros"
    /\ ~unit.done
    /\ unit' = [unit EXCEPT !.done = TRUE, !.op = "lacunas",
                            !.out = [NoAnalysis EXCEPT !.lacunas = agrupar_lacunas(unit.arg)]]
    /\ UNCHANGED pipeline

GapNext == AnalisarSerie \/ AgruparLacunas

GapSpec == GapInit /\ [][GapNext]_vars

IsAscending(s) == \A k \in 1..(Len(s) - 1) : s[k] < s[k + 1]

\* C3: for the observed numbers of one group, the missing list is sorted
\* ascending, disjoint from the observed numbers, and with them makes up
\* exactly min..max; the group is complete exactly when nothing is missing.
C3_MissingPartitionsSpan ==
    (unit.done /\ unit.op = "serie") =>
        LET observed == {unit.arg[k] : k \in 1..Len(unit.arg)}
            lo == CHOOSE x \in observed : \A y \in observed : x <= y
            hi == CHOOSE x \in observed : \A y \in observed : x >= y
            r == unit.out
            missing == {r.faltantes[k] : k \in 1..Len(r.faltantes)}
        IN  /\ r.min_n = lo
            /\ r.max_n = hi
            /\ IsAscending(r.faltantes)
            /\ missing \cap observed = {}
            /\ missing \cup observed = lo..hi
            /\ (r.situacao = COMPLETA) <=> (r.faltantes = <<>>)
            /\ r.situacao \in {COMPLETA, INCOMPLETA}

C3_Witness ==
    /\ unit.done
    /\ unit.op = "serie"
    /\ unit.arg = <<10, 7>>
    /\ unit.out.min_n = 7
    /\ unit.out.max_n = 10
    /\ unit.out.faltantes = <<8, 9>>
    /\ unit.out.situacao = INCOMPLETA

(***************************************************************************)
(* Reading a rendering back: split at ", ", then each token at "-".        *)
(***************************************************************************)
RECURSIVE SplitTokens(_, _)
SplitTokens(s, atual) ==
    IF s = <<>> THEN <<atual>>
    ELSE IF Len(s) >= 2 /\ s[1] = "," /\ s[2] = " "
    THEN <<atual>> \o SplitTokens(SubSeq(s, 3, Len(s)), <<>>)
    ELSE SplitTokens(Tail(s), Append(atual, Head(s)))

DashAt(tok) == {k \in 1..Len(tok) : tok[k] = "-"}

\* The numbers a token stands for; {} for a token that is no rendering.
TokenLo(tok) ==
    IF DashAt(tok) = {} THEN int(tok)
    ELSE int(SubSeq(tok, 1, (CHOOSE k \in DashAt(tok) : TRUE) - 1))

TokenHi(tok) ==
    IF DashAt(tok) = {} THEN int(tok)
    ELSE int(SubSeq(tok, (CHOOSE k \in DashAt(tok) : TRUE) + 1, Len(tok)))

WellFormedToken(tok) ==
    /\ Cardinality(DashAt(tok)) <= 1
    /\ TokenLo(tok) # ValueError
    /\ TokenHi(tok) # ValueError
    /\ (DashAt(tok) # {}) => TokenLo(tok) < TokenHi(tok)

HasNoDuplicates(s) == \A j, k \in 1..Len(s) : j # k => s[j] # s[k]

\* C4: a duplicate-free list is rendered, whatever its order, as the
\* ascending ", "-separated maximal runs of its set: "start-end" for a run
\* of two or more, the number itself for an isolated one; reading the
\* tokens back gives the set.
C4_RunsRoundTrip ==
    (unit.done /\ unit.op = "lacunas" /\ HasNoDuplicates(unit.arg)) =>
        LET S == {unit.arg[k] : k \in 1..Len(unit.arg)}
            text == unit.out.lacunas
            toks == IF text = <<>> THEN <<>> ELSE SplitTokens(text, <<>>)
        IN  /\ (S = {}) <=> (text = <<>>)
            /\ \A k \in 1..Len(toks) :
                   /\ WellFormedToken(toks[k])
                   /\ (TokenLo(toks[k]) - 1) \notin S
                   /\ (TokenHi(toks[k]) + 1) \notin S
            /\ \A k \in 1..(Len(toks) - 1) : TokenHi(toks[k]) < TokenLo(toks[k + 1])
            /\ UNION {TokenLo(toks[k])..TokenHi(toks[k]) : k \in 1..Len(toks)} = S

C4_Witness ==
    /\ unit.done
    /\ unit.op = "lacunas"
    /\ unit.arg = <<10, 6, 5, 7>>
    /\ unit.out.lacunas = <<"5", "-", "7", ",", " ", "1", "0">>

(***************************************************************************)
(* The content of an uploaded file.  A buffer either fails to parse        *)
(* (wf = FALSE) or is a tree, kept as its root tag and the blocks the code *)
(* looks for, in document order; a block has a tag, the tag of its parent  *)
(* and the text of its child elements.                                     *)
(***************************************************************************)
Malformed == [wf |-> FALSE, root |-> "", blocks |-> <<>>]

M55 == <<"5", "5">>
S1 == <<"1">>
S2 == <<"2">>
C100 == <<"1", "0", "0">>
C101 == <<"1", "0", "1">>
C102 == <<"1", "0", "2">>
C135 == <<"1", "3", "5">>
Chave == <<"3", "5">>       \* stands for a 44-digit access key
Motivo == <<"o", "k">>

Ide(mod, serie, nNF) ==
    [tag |-> "ide", parent |-> "infNFe",
     kids |-> ("mod" :> mod) @@ ("serie" :> serie) @@ ("nNF" :> nNF)]

InfProt(cStat) ==
    [tag |-> "infProt", parent |-> "protNFe",
     kids |-> ("cStat" :> cStat) @@ ("xMotivo" :> Motivo) @@ ("chNFe" :> Chave)]

InfInutPedido(serie, nNFIni, nNFFin) ==
    [tag |-> "infInut", parent |-> "inutNFe",
     kids |-> ("mod" :> M55) @@ ("serie" :> serie) @@ ("nNFIni" :> nNFIni)
              @@ ("nNFFin" :> nNFFin) @@ ("xJust" :> Motivo)]

InfInutRetorno(cStat, serie, nNFIni, nNFFin) ==
    [tag |-> "infInut", parent |-> "retInutNFe",
     kids |-> ("cStat" :> cStat) @@ ("xMotivo" :> Motivo) @@ ("mod" :> M55)
              @@ ("serie" :> serie) @@ ("nNFIni" :> nNFIni) @@ ("nNFFin" :> nNFFin)]

InfEvento(cStat) ==
    [tag |-> "infEvento", parent |-> "retEvento",
     kids |-> ("cStat" :> cStat) @@ ("xMotivo" :> Motivo) @@ ("chNFe" :> Chave)]

\* An authorization envelope: the invoice, then its protocol blocks.
NFeProc(serie, nNF, cStats) ==
    [wf |-> TRUE, root |-> "nfeProc",
     blocks |-> <<Ide(M55, serie, nNF)>> \o [k \in 1..Len(cStats) |-> InfProt(cStats[k])]]

\* A voiding result: the request, then the authority's answer.
ProcInutNFe(serie, nNFIni, nNFFin) ==
    [wf |-> TRUE, root |-> "ProcInutNFe",
     blocks |-> <<InfInutPedido(serie, nNFIni, nNFFin),
                  InfInutRetorno(C102, serie, nNFIni, nNFFin)>>]

\* A voiding request the authority has not answered.
ProcInutNFeSemRetorno(serie, nNFIni, nNFFin) ==
    [wf |-> TRUE, root |-> "ProcInutNFe",
     blocks |-> <<InfInutPedido(serie, nNFIni, nNFFin)>>]

\* A cancellation event on its own.
ProcEventoNFe ==
    [wf |-> TRUE, root |-> "procEventoNFe", blocks |-> <<InfEvento(C135)>>]

Docs ==
    {Malformed}
    \cup {NFeProc(S1, n, <<C100>>) : n \in {<<"0">>, <<"1">>, <<"3">>, <<"²">>, <<"a">>}}
    \cup {NFeProc(S2, <<"1">>, <<C100 \o <<" ">> >>)}      \* a padded status code
    \cup {NFeProc(S1, <<"1">>, <<C100, C135>>)}
    \cup {NFeProc(S1, <<"3">>, <<C101>>)}
    \cup {NFeProc(S1, <<"1">>, <<>>)}
    \cup {NFeProc(<<>>, <<"1">>, <<C100>>)}                \* <serie/> without text
    \cup {ProcInutNFe(S1, <<"1">>, <<"3">>)}
    \cup {ProcInutNFeSemRetorno(S1, <<"3">>, <<"1">>)}     \* a range written backwards
    \cup {ProcEventoNFe}

\* A file name is kept as its rank in the order of names.
Names == 1..MaxFiles

Batches == UNION {[S -> Docs] : S \in SUBSET Names}

(***************************************************************************)
(* ElementTree lookups.                                                    *)
(***************************************************************************)
First(S) == CHOOSE k \in S : \A j \in S : k <= j

\* root.findtext('.//nfe:<tag>', default): the first element in document order.
findtext(blocks, tag, default) ==
    LET hits == {k \in 1..Len(blocks) : tag \in DOMAIN blocks[k].kids}
    IN  IF hits = {} THEN default ELSE blocks[First(hits)].kids[tag]

\* root.find('.//nfe:<tag>'): the blocks of that tag, the first one first.
find(blocks, tag) == SelectSeq(blocks, LAMBDA b : b.tag = tag)

\* Mutant: the child element is never found.
childtext_ausente(node, tag, default) == default

\* node.findtext('nfe:<tag>', default)
childtext(node, tag, default) ==
    IF tag \in DOMAIN node.kids THEN node.kids[tag] ELSE default

(***************************************************************************)
(* DadosNota and obter_dados_xml_de_conteudo                               *)
(***************************************************************************)
NA == <<"N", "/", "A">>

NENHUM == "none"
VALUE_ERROR_INT == "invalid literal for int() with base 10"
VALUE_ERROR_VAZIO == "Nenhum arquivo XML foi enviado para análise."

\* Mutant: the two status fields start empty instead of "N/A".
DadosNotaStatusVazio(arquivo_path) ==
    [arquivo_path |-> arquivo_path, tipo_documento |-> Desconhecido,
     chave_acesso |-> <<>>, status_code |-> <<>>, status_text |-> <<>>,
     modelo |-> <<>>, serie |-> <<>>, numero_inicial |-> <<>>,
     numero_final |-> <<>>, data_emissao |-> <<>>, foi_copiado |-> FALSE,
     erros |-> <<>>]

DadosNota(arquivo_path) ==
    [arquivo_path |-> arquivo_path, tipo_documento |-> Desconhecido,
     chave_acesso |-> <<>>, status_code |-> NA, status_text |-> NA,
     modelo |-> <<>>, serie |-> <<>>, numero_inicial |-> <<>>,
     numero_final |-> <<>>, data_emissao |-> <<>>, foi_copiado |-> FALSE,
     erros |-> <<>>]

XML_INVALIDO == "XML inválido"
FALHA_AO_COPIAR == "Falha ao copiar XML"

\* Mutant: a well-formed document is returned unread, with the defaults.
obter_dados_sem_ler(filename, file_content) ==
    IF ~file_content.wf
    THEN [DadosNota(filename) EXCEPT !.erros = Append(@, XML_INVALIDO)]
    ELSE DadosNota(filename)

obter_dados_xml_de_conteudo(filename, file_content) ==
    LET nota == DadosNota(filename)
    IN  IF ~file_content.wf
        THEN [nota EXCEPT !.erros = Append(@, XML_INVALIDO)]
        ELSE
        LET root == file_content.blocks
            status_code == strip(findtext(root, "cStat", <<>>))
            status_text == strip(findtext(root, "xMotivo", <<>>))
            tipo_documento == _mapear_cstat_para_tipo(status_code)
            ide_node == find(root, "ide")
            com_ide == ide_node # <<>>
            modelo == IF com_ide THEN childtext(ide_node[1], "mod", <<>>) ELSE nota.modelo
            serie == IF com_ide THEN childtext(ide_node[1], "serie", <<>>) ELSE nota.serie
            nNF == IF com_ide THEN childtext(ide_node[1], "nNF", <<>>) ELSE nota.numero_inicial
            data_emissao ==
                IF com_ide THEN childtext(ide_node[1], "dhEmi", <<>>) ELSE nota.data_emissao
            infInut_node == find(root, "infInut")
            inutilizada == tipo_documento = NFeInutilizada /\ infInut_node # <<>>
        IN  [nota EXCEPT
                !.status_code = status_code,
                !.status_text = status_text,
                !.tipo_documento = tipo_documento,
                !.modelo = modelo,
                !.serie = serie,
                !.numero_inicial =
                    IF inutilizada THEN childtext(infInut_node[1], "nNFIni", nNF) ELSE nNF,
                !.numero_final =
                    IF inutilizada THEN childtext(infInut_node[1], "nNFFin", nNF) ELSE nNF,
                !.data_emissao = data_emissao,
                !.chave_acesso = strip(findtext(root, "chNFe", <<>>))]

(***************************************************************************)
(* parse_numeros                                                           *)
(***************************************************************************)
RECURSIVE SplitLoop(_, _, _)
SplitLoop(s, sep, atual) ==
    IF s = <<>> THEN <<atual>>
    ELSE IF Head(s) = sep THEN <<atual>> \o SplitLoop(Tail(s), sep, <<>>)
    ELSE SplitLoop(Tail(s), sep, Append(atual, Head(s)))

\* s.split(sep) for a one-character separator.
split(s, sep) == SplitLoop(s, sep, <<>>)

\* [raised, numeros]: the set of the valid numbers, or the ValueError of int().
parse_numeros(raw_str) ==
    IF raw_str = <<>> THEN [raised |-> NENHUM, numeros |-> {}]
    ELSE
    LET partes == split(raw_str, ",")
        n == [k \in 1..Len(partes) |-> strip(partes[k])]
        validos == {k \in 1..Len(partes) : isdigit(n[k])}
    IN  IF \E k \in validos : int(n[k]) = ValueError
        THEN [raised |-> VALUE_ERROR_INT, numeros |-> {}]
        ELSE [raised |-> NENHUM, numeros |-> {int(n[k]) : k \in validos}]

\* The numerosParaCopiar form fields the model sends.
RawNumeros ==
    {<<>>, <<"0", ",", "1">>, <<" ", "3", ",", "a">>, <<"²">>}

(***************************************************************************)
(* sorted() with a key made of str: a stable insertion sort of             *)
(* [key, value] pairs, keys compared as Python compares tuples.            *)
(***************************************************************************)
RECURSIVE KeyLess(_, _)
KeyLess(a, b) ==
    IF a = <<>> \/ b = <<>> THEN FALSE
    ELSE IF Head(a) = Head(b) THEN KeyLess(Tail(a), Tail(b))
    ELSE StrLess(Head(a), Head(b))

RECURSIVE InsertByKey(_, _)
InsertByKey(x, s) ==
    IF s = <<>> THEN <<x>>
    ELSE IF KeyLess(x.key, Head(s).key) THEN <<x>> \o s
    ELSE <<Head(s)>> \o InsertByKey(x, Tail(s))

RECURSIVE sorted_by_key(_)
sorted_by_key(s) ==
    IF s = <<>> THEN <<>>
    ELSE InsertByKey(s[Len(s)], sorted_by_key(SubSeq(s, 1, Len(s) - 1)))

\* sorted(d.items()) of a dict, given the set of its (distinct) keys.
RECURSIVE sorted_keys(_)
sorted_keys(K) ==
    IF K = {} THEN <<>>
    ELSE LET m == CHOOSE k \in K : \A j \in K \ {k} : KeyLess(k, j)
         IN  <<m>> \o sorted_keys(K \ {m})

(***************************************************************************)
(* gerar_relatorios                                                        *)
(***************************************************************************)
\* The date column of the detailed report.
_formatar_data(data_emissao) == data_emissao

\* The test that sends a record to dados_por_serie rather than outras_notas.
NotaDeSerie(nota) ==
    /\ nota.tipo_documento = NFeAutorizada
    /\ nota.modelo # <<>>
    /\ nota.serie # <<>>
    /\ nota.numero_inicial # <<>>
    /\ isdigit(nota.numero_inicial)

\* dados_por_serie[chave] and outras_notas, in the order of the list.
NotasDaSerie(lista, chave) ==
    SelectSeq(lista, LAMBDA n : NotaDeSerie(n) /\ <<n.modelo, n.serie>> = chave)

OutrasNotas(lista) == SelectSeq(lista, LAMBDA n : ~NotaDeSerie(n))

ChavesDeSerie(lista) ==
    {<<lista[k].modelo, lista[k].serie>> : k \in {j \in 1..Len(lista) : NotaDeSerie(lista[j])}}

\* sorted(contagem_status.items())
ContagemStatus(lista) ==
    LET tipos == sorted_keys({<<lista[k].tipo_documento>> : k \in 1..Len(lista)})
    IN  [k \in 1..Len(tipos) |->
            [status |-> tipos[k][1],
             qtd |-> Cardinality({j \in 1..Len(lista) : lista[j].tipo_documento = tipos[k][1]})]]

NumerosDasNotas(notas) == [k \in 1..Len(notas) |-> int(notas[k].numero_inicial)]

\* The series lines of the summary; the loop stops at the first series
\* with a number int() rejects.
RECURSIVE LinhasDeSerie(_, _)
LinhasDeSerie(lista, chaves) ==
    IF chaves = <<>> THEN <<>>
    ELSE LET numeros == NumerosDasNotas(NotasDaSerie(lista, Head(chaves)))
         IN  IF \E k \in 1..Len(numeros) : numeros[k] = ValueError
             THEN <<>>
             ELSE <<[modelo |-> Head(chaves)[1], serie |-> Head(chaves)[2],
                     analise |-> AnaliseSerie(numeros)]>>
                  \o LinhasDeSerie(lista, Tail(chaves))

ResumoLevanta(lista) ==
    \E k \in 1..Len(lista) :
        NotaDeSerie(lista[k]) /\ int(lista[k].numero_inicial) = ValueError

SIM == "Sim"
NAO == "Não"
NoFile == 0

LinhaDaNota(nota, situacao_numeracao) ==
    [modelo |-> nota.modelo, serie |-> nota.serie, numero_nota |-> nota.numero_inicial,
     data_emissao |-> _formatar_data(nota.data_emissao),
     tipo_documento |-> nota.tipo_documento,
     status_sefaz_cod |-> nota.status_code, status_sefaz_motivo |-> nota.status_text,
     chave_acesso |-> nota.chave_acesso, arquivo_origem |-> nota.arquivo_path,
     foi_copiado |-> IF nota.foi_copiado THEN SIM ELSE NAO,
     situacao_numeracao |-> situacao_numeracao, erros |-> nota.erros]

LinhaFaltante(modelo, serie, numero_atual) ==
    [modelo |-> modelo, serie |-> serie, numero_nota |-> str(numero_atual),
     data_emissao |-> <<>>, tipo_documento |-> <<"A","u","s","e","n","t","e">>,
     status_sefaz_cod |-> <<>>, status_sefaz_motivo |-> <<>>,
     chave_acesso |-> <<>>, arquivo_origem |-> NoFile,
     foi_copiado |-> NAO, situacao_numeracao |-> "Faltante", erros |-> <<>>]

\* The rows of one series: notas_dict keeps, for each number, the last
\* record of the list that carries it.
LinhasCsvDaSerie(chave, notas) ==
    LET numeros == NumerosDasNotas(notas)
        chaves == {numeros[k] : k \in 1..Len(numeros)}
        min_n == CHOOSE x \in chaves : \A y \in chaves : x <= y
        max_n == CHOOSE x \in chaves : \A y \in chaves : x >= y
        ultima(n) == CHOOSE k \in 1..Len(notas) :
                        /\ numeros[k] = n
                        /\ \A j \in (k + 1)..Len(notas) : numeros[j] # n
    IN  [d \in 1..(max_n - min_n + 1) |->
            LET numero_atual == min_n + d - 1
            IN  IF numero_atual \in chaves
                THEN LinhaDaNota(notas[ultima(numero_atual)], "Presente")
                ELSE LinhaFaltante(chave[1], chave[2], numero_atual)]

RECURSIVE LinhasCsvDasSeries(_, _)
LinhasCsvDasSeries(lista, chaves) ==
    IF chaves = <<>> THEN <<>>
    ELSE LinhasCsvDaSerie(Head(chaves), NotasDaSerie(lista, Head(chaves)))
         \o LinhasCsvDasSeries(lista, Tail(chaves))

\* sorted(outras_notas, key=lambda n: (n.modelo, n.serie, n.numero_inicial))
LinhasCsvDasOutras(lista) ==
    LET outras == OutrasNotas(lista)
        ordenadas == sorted_by_key(
            [k \in 1..Len(outras) |->
                [key |-> <<outras[k].modelo, outras[k].serie, outras[k].numero_inicial>>,
                 value |-> outras[k]]])
    IN  [k \in 1..Len(ordenadas) |-> LinhaDaNota(ordenadas[k].value, "N/A")]

\* [raised, resumo, csv]: what the call leaves on disk, and the exception
\* that ends it.  Percentages and the time stamp of the summary are left out.
gerar_relatorios(lista_dados) ==
    LET total_xmls == Len(lista_dados)
        com_erro == Cardinality({k \in 1..Len(lista_dados) : lista_dados[k].erros # <<>>})
        chaves == sorted_keys(ChavesDeSerie(lista_dados))
        cabecalho == [exists |-> TRUE, complete |-> FALSE, total_xmls |-> total_xmls,
                      com_erro |-> com_erro, status |-> ContagemStatus(lista_dados),
                      series |-> LinhasDeSerie(lista_dados, chaves)]
    IN  IF total_xmls = 0
        THEN [raised |-> NENHUM,
              resumo |-> [NoResumo EXCEPT !.exists = TRUE],
              csv |-> [NoCsv EXCEPT !.exists = TRUE]]
        ELSE IF ResumoLevanta(lista_dados)
        THEN [raised |-> VALUE_ERROR_INT, resumo |-> cabecalho, csv |-> NoCsv]
        ELSE [raised |-> NENHUM,
              resumo |-> [cabecalho EXCEPT !.complete = TRUE],
              csv |-> [exists |-> TRUE, complete |-> TRUE,
                       rows |-> LinhasCsvDasSeries(lista_dados, chaves)
                                \o LinhasCsvDasOutras(lista_dados)]]

(***************************************************************************)
(* api.analyze_files and analysis_engine.run_analysis, step by step.       *)
(***************************************************************************)
Uploads == {"file", "files"}

\* An upload of .xml entries, with or without one entry of another kind, or
\* a request that is turned away before anything is read.
Requests ==
    [kind : Uploads, entries : Batches, outros : BOOLEAN, numerosParaCopiar : RawNumeros]
    \cup [kind : {"nenhum", "nao_zip", "zip_corrompido"}, entries : {<<>>},
          outros : {FALSE}, numerosParaCopiar : {<<>>}]

UnitIdle == unit = [op |-> "none", arg |-> <<>>, done |-> TRUE, out |-> <<>>]

Init ==
    /\ UnitIdle
    /\ pc = "request"
    /\ request \in Requests
    /\ dirs = {}
    /\ xml_files_in_memory = <<>>
    /\ numeros_para_copiar = {}
    /\ futures = {}
    /\ lista_dados_notas = <<>>
    /\ idx = 0
    /\ pasta_copiados = <<>>
    /\ resumo = NoResumo
    /\ csv = NoCsv
    /\ zip = NoZip
    /\ raised = NENHUM
    /\ response = NoResponse

Erro(code, error) == [NoResponse EXCEPT !.code = code, !.error = error]

\* analyze_files up to the call of run_analysis: the job directory, the
\* files read into memory, the numbers to copy.
AnalyzeFiles ==
    /\ pc = "request"
    /\ dirs' = dirs \cup {"result_dir"}
    /\ request' = NoRequest
    /\ LET numeros == parse_numeros(request.numerosParaCopiar)
       IN  CASE request.kind = "nenhum" ->
                  /\ response' = Erro(400, "Nenhum arquivo enviado.")
                  /\ pc' = "responded"
                  /\ UNCHANGED <<xml_files_in_memory, numeros_para_copiar>>
             [] request.kind = "nao_zip" ->
                  /\ response' = Erro(400, "Envie um arquivo .zip válido.")
                  /\ pc' = "responded"
                  /\ UNCHANGED <<xml_files_in_memory, numeros_para_copiar>>
             [] request.kind = "zip_corrompido" ->
                  /\ response' = Erro(500, "Erro interno no servidor durante a análise.")
                  /\ pc' = "responded"
                  /\ UNCHANGED <<xml_files_in_memory, numeros_para_copiar>>
             [] request.kind \in Uploads /\ numeros.raised # NENHUM ->
                  /\ xml_files_in_memory' = request.entries
                  /\ response' = Erro(400, numeros.raised)
                  /\ pc' = "responded"
                  /\ UNCHANGED numeros_para_copiar
             [] request.kind \in Uploads /\ numeros.raised = NENHUM ->
                  /\ xml_files_in_memory' = request.entries
                  /\ numeros_para_copiar' = numeros.numeros
                  /\ pc' = "run_analysis"
                  /\ UNCHANGED response
    /\ UNCHANGED <<unit, futures, lista_dados_notas, idx, pasta_copiados, resumo, csv,
                   zip, raised>>

\* Mutant: the directories are made before the batch is looked at.
RunAnalysisStartMkdirFirst ==
    /\ pc = "run_analysis"
    /\ dirs' = dirs \cup {"result_dir", "xmls_copiados"}
    /\ IF Cardinality(DOMAIN xml_files_in_memory) = 0
       THEN /\ raised' = VALUE_ERROR_VAZIO
            /\ pc' = "except"
            /\ UNCHANGED futures
       ELSE /\ futures' = DOMAIN xml_files_in_memory
            /\ pc' = "as_completed"
            /\ UNCHANGED raised
    /\ UNCHANGED <<unit, request, xml_files_in_memory, numeros_para_copiar,
                   lista_dados_notas, idx, pasta_copiados, resumo, csv, zip, response>>

\* run_analysis up to the submission of the extraction tasks.
RunAnalysisStart ==
    /\ pc = "run_analysis"
    /\ IF Cardinality(DOMAIN xml_files_in_memory) = 0
       THEN /\ raised' = VALUE_ERROR_VAZIO
            /\ pc' = "except"
            /\ UNCHANGED <<dirs, futures>>
       ELSE /\ dirs' = dirs \cup {"result_dir", "xmls_copiados"}
            /\ futures' = DOMAIN xml_files_in_memory
            /\ pc' = "as_completed"
            /\ UNCHANGED raised
    /\ UNCHANGED <<unit, request, xml_files_in_memory, numeros_para_copiar,
                   lista_dados_notas, idx, pasta_copiados, resumo, csv, zip, response>>

\* One extraction task completes, in any order, and its record is appended.
FutureCompleted(filename) ==
    /\ pc = "as_completed"
    /\ filename \in futures
    /\ lista_dados_notas' =
           Append(lista_dados_notas,
                  obter_dados_xml_de_conteudo(filename, xml_files_in_memory[filename]))
    /\ futures' = futures \ {filename}
    /\ IF futures' = {}
       THEN pc' = "copiar" /\ idx' = 1
       ELSE UNCHANGED <<pc, idx>>
    /\ UNCHANGED <<unit, request, dirs, xml_files_in_memory, numeros_para_copiar,
                   pasta_copiados, resumo, csv, zip, raised, response>>

None == -2

\* int(nota.numero_inicial) if nota.numero_inicial and ....isdigit() else None
NumeroDaNota(nota) ==
    IF nota.numero_inicial # <<>> /\ isdigit(nota.numero_inicial)
    THEN int(nota.numero_inicial)
    ELSE None

\* Python's truth value of an int or None.
Truthy(numero) == numero # None /\ numero # 0

\* Mutant: every record with a number is copied, whatever the targets.
SelecionadaSemAlvos(nota) ==
    /\ NumeroDaNota(nota) # ValueError
    /\ Truthy(NumeroDaNota(nota))
    /\ nota.arquivo_path \in DOMAIN xml_files_in_memory

\* The condition under which the copy loop writes the file of a record.
Selecionada(nota) ==
    /\ NumeroDaNota(nota) # ValueError
    /\ Truthy(NumeroDaNota(nota))
    /\ NumeroDaNota(nota) \in numeros_para_copiar
    /\ nota.arquivo_path \in DOMAIN xml_files_in_memory

\* What write_bytes leaves behind when it fails after creating the file.
Truncated == [wf |-> FALSE, root |-> "truncated", blocks |-> <<>>]

WriteOutcomes == {"written", "open_failed", "write_failed"}

\* One turn of the copy loop.
CopiarXml ==
    /\ pc = "copiar"
    /\ LET nota == lista_dados_notas[idx]
           filename_original == nota.arquivo_path
       IN  \/ /\ NumeroDaNota(nota) = ValueError
              /\ lista_dados_notas' =
                     [lista_dados_notas EXCEPT ![idx].erros = Append(@, FALHA_AO_COPIAR)]
              /\ UNCHANGED pasta_copiados
           \/ /\ NumeroDaNota(nota) # ValueError
              /\ ~Selecionada(nota)
              /\ UNCHANGED <<lista_dados_notas, pasta_copiados>>
           \/ /\ Selecionada(nota)
              /\ \E outcome \in WriteOutcomes :
                    CASE outcome = "written" ->
                           /\ pasta_copiados' =
                                  (filename_original :> xml_files_in_memory[filename_original])
                                  @@ pasta_copiados
                           /\ lista_dados_notas' =
                                  [lista_dados_notas EXCEPT ![idx].foi_copiado = TRUE]
                      [] outcome = "open_failed" ->
                           /\ UNCHANGED pasta_copiados
                           /\ lista_dados_notas' =
                                  [lista_dados_notas EXCEPT
                                      ![idx].erros = Append(@, FALHA_AO_COPIAR)]
                      [] outcome = "write_failed" ->
                           /\ pasta_copiados' = (filename_original :> Truncated) @@ pasta_copiados
                           /\ lista_dados_notas' =
                                  [lista_dados_notas EXCEPT
                                      ![idx].erros = Append(@, FALHA_AO_COPIAR)]
    /\ IF idx = Len(lista_dados_notas)
       THEN pc' = "gerar_relatorios" /\ idx' = idx
       ELSE pc' = pc /\ idx' = idx + 1
    /\ UNCHANGED <<unit, request, dirs, xml_files_in_memory, numeros_para_copiar, futures,
                   resumo, csv, zip, raised, response>>

\* The call of gerar_relatorios at the end of the copy loop.
GerarRelatorios ==
    /\ pc = "gerar_relatorios"
    /\ LET r == gerar_relatorios(lista_dados_notas)
       IN  /\ resumo' = r.resumo
           /\ csv' = r.csv
           /\ raised' = r.raised
           /\ pc' = IF r.raised = NENHUM THEN "zip" ELSE "except"
    /\ UNCHANGED <<unit, request, dirs, xml_files_in_memory, numeros_para_copiar, futures,
                   lista_dados_notas, idx, pasta_copiados, zip, response>>

\* The archive: both reports and whatever lies under xmls_copiados/.
Compactar ==
    /\ pc = "zip"
    /\ zip' = [exists |-> TRUE, resumo |-> resumo, csv |-> csv,
               xmls_copiados |-> pasta_copiados]
    /\ pc' = "return"
    /\ UNCHANGED <<unit, request, dirs, xml_files_in_memory, numeros_para_copiar, futures,
                   lista_dados_notas, idx, pasta_copiados, resumo, csv, raised, response>>

\* analyze_files after run_analysis has returned.
Responder ==
    /\ pc = "return"
    /\ response' = [code |-> 200, error |-> "", summary |-> resumo, downloadUrl |-> TRUE]
    /\ pc' = "responded"
    /\ UNCHANGED <<unit, request, dirs, xml_files_in_memory, numeros_para_copiar, futures,
                   lista_dados_notas, idx, pasta_copiados, resumo, csv, zip, raised>>

\* except ValueError as ve: the message goes back with status 400.
TratarValueError ==
    /\ pc = "except"
    /\ response' = Erro(400, raised)
    /\ pc' = "responded"
    /\ UNCHANGED <<unit, request, dirs, xml_files_in_memory, numeros_para_copiar, futures,
                   lista_dados_notas, idx, pasta_copiados, resumo, csv, zip, raised>>

RmtreeOutcomes == {"removed", "failed"}

\* download_file: the client follows the downloadUrl of a 200 answer; the
\* archive is sent and cleanup() removes the job directory, or logs that it
\* could not.
DownloadFile ==
    /\ pc = "responded"
    /\ response.downloadUrl
    /\ \E outcome \in RmtreeOutcomes :
          IF outcome = "removed"
          THEN /\ dirs' = {}
               /\ pasta_copiados' = <<>>
               /\ resumo' = NoResumo
               /\ csv' = NoCsv
               /\ zip' = NoZip
               /\ pc' = "downloaded"
          ELSE /\ pc' = "cleanup_failed"
               /\ UNCHANGED <<dirs, pasta_copiados, resumo, csv, zip>>
    /\ UNCHANGED <<unit, request, xml_files_in_memory, numeros_para_copiar, futures,
                   lista_dados_notas, idx, raised, response>>

Next ==
    \/ AnalyzeFiles
    \/ RunAnalysisStart
    \/ \E filename \in Names : FutureCompleted(filename)
    \/ CopiarXml
    \/ GerarRelatorios
    \/ Compactar
    \/ Responder
    \/ TratarValueError
    \/ DownloadFile

Spec == Init /\ [][Next]_vars

\* The server from its start: it waits for a request, and every step that
\* can be taken is taken, the client's download included.
LiveInit ==
    /\ UnitIdle
    /\ pc = "listening"
    /\ request = NoRequest
    /\ dirs = {}
    /\ xml_files_in_memory = <<>>
    /\ numeros_para_copiar = {}
    /\ futures = {}
    /\ lista_dados_notas = <<>>
    /\ idx = 0
    /\ pasta_copiados = <<>>
    /\ resumo = NoResumo
    /\ csv = NoCsv
    /\ zip = NoZip
    /\ raised = NENHUM
    /\ response = NoResponse

\* A POST to /api/analyze arrives.
ReceiveRequest ==
    /\ pc = "listening"
    /\ request' \in Requests
    /\ pc' = "request"
    /\ UNCHANGED <<unit, dirs, xml_files_in_memory, numeros_para_copiar, futures,
                   lista_dados_notas, idx, pasta_copiados, resumo, csv, zip, raised,
                   response>>

LiveNext == ReceiveRequest \/ Next

LiveSpec == LiveInit /\ [][LiveNext]_vars /\ WF_vars(LiveNext)

(***************************************************************************)
(* The stand-alone variant src/analise-xml.py: the .xml files found under  *)
(* PASTA_ORIGEM are read one after the other, the selected ones are copied *)
(* to PASTA_DESTINO, and the two reports are written there.  The variables *)
(* of the request pipeline hold the run: xml_files_in_memory the files     *)
(* found, futures the files not yet read, pasta_copiados the copies.       *)
(***************************************************************************)
INTERROGACAO == <<"?">>

NFeSemProtocolo ==
    <<"N","F","e"," ","(","S","e","m"," ","P","r","o","t","o","c","o","l","o",")">>
InutilizacaoSemProtocolo ==
    <<"I","n","u","t","i","l","i","z","a","ç","ã","o"," ",
      "(","S","e","m"," ","P","r","o","t","o","c","o","l","o",")">>
JustificativaNaoLida ==
    <<"J","u","s","t","i","f","i","c","a","t","i","v","a"," ","n","ã","o"," ","l","i","d","a">>

XML_MALFORMADO == "Arquivo XML malformado ou corrompido."
SEM_RETORNO == "Bloco de retorno <retInutNFe> não encontrado."
INUT_INVALIDA == "Estrutura do XML de Inutilização é inválida."
SEM_PROTOCOLO == "Nenhum protocolo de autorização encontrado."
NAO_SUPORTADO == "Tipo de XML não suportado"

\* f"Tipo de XML não suportado: <{tag_original}>"
TipoNaoSuportado(tag_original) == NAO_SUPORTADO \o ": <" \o tag_original \o ">"

\* str.lower() of the root tags of the model.
lower(tag) ==
    CASE tag = "nfeProc" -> "nfeproc"
      [] tag = "ProcInutNFe" -> "procinutnfe"
      [] tag = "procEventoNFe" -> "proceventonfe"
      [] OTHER -> tag

\* root.find('nfe:<parent>/nfe:<tag>')
find_path(blocks, parent, tag) ==
    SelectSeq(blocks, LAMBDA b : b.parent = parent /\ b.tag = tag)

\* root.findall('.//nfe:<tag>')
findall(blocks, tag) == SelectSeq(blocks, LAMBDA b : b.tag = tag)

\* parse_numeros of the variant: no shortcut for the empty string.
cli_parse_numeros(raw_str) ==
    LET partes == split(raw_str, ",")
        n == [k \in 1..Len(partes) |-> strip(partes[k])]
        validos == {k \in 1..Len(partes) : isdigit(n[k])}
    IN  IF \E k \in validos : int(n[k]) = ValueError
        THEN [raised |-> VALUE_ERROR_INT, numeros |-> {}]
        ELSE [raised |-> NENHUM, numeros |-> {int(n[k]) : k \in validos}]

obter_dados_xml(caminho_xml, file_content) ==
    LET dados == DadosNota(caminho_xml)
    IN  IF ~file_content.wf
        THEN [dados EXCEPT !.erros = Append(@, XML_MALFORMADO)]
        ELSE
        LET root == file_content.blocks
            tag_raiz == lower(file_content.root)
        IN  CASE tag_raiz = "procinutnfe" ->
                   LET infInutRetorno == find_path(root, "retInutNFe", "infInut")
                       infInutPedido == find_path(root, "inutNFe", "infInut")
                   IN  IF infInutRetorno # <<>>
                       THEN LET cstat == strip(childtext(infInutRetorno[1], "cStat", NA))
                            IN  [dados EXCEPT
                                   !.tipo_documento = cli_mapear_cstat_para_tipo(cstat),
                                   !.status_code = cstat,
                                   !.status_text =
                                       strip(childtext(infInutRetorno[1], "xMotivo", NA)),
                                   !.modelo =
                                       strip(childtext(infInutRetorno[1], "mod", INTERROGACAO)),
                                   !.serie =
                                       strip(childtext(infInutRetorno[1], "serie", INTERROGACAO)),
                                   !.numero_inicial =
                                       strip(childtext(infInutRetorno[1], "nNFIni", INTERROGACAO)),
                                   !.numero_final =
                                       strip(childtext(infInutRetorno[1], "nNFFin", INTERROGACAO)),
                                   !.data_emissao =
                                       strip(childtext(infInutRetorno[1], "dhRecbto", INTERROGACAO))]
                       ELSE IF infInutPedido # <<>>
                       THEN [dados EXCEPT
                               !.tipo_documento = InutilizacaoSemProtocolo,
                               !.status_text =
                                   strip(childtext(infInutPedido[1], "xJust", JustificativaNaoLida)),
                               !.modelo = strip(childtext(infInutPedido[1], "mod", INTERROGACAO)),
                               !.serie = strip(childtext(infInutPedido[1], "serie", INTERROGACAO)),
                               !.numero_inicial =
                                   strip(childtext(infInutPedido[1], "nNFIni", INTERROGACAO)),
                               !.numero_final =
                                   strip(childtext(infInutPedido[1], "nNFFin", INTERROGACAO)),
                               !.erros = Append(@, SEM_RETORNO)]
                       ELSE [dados EXCEPT !.erros = Append(@, INUT_INVALIDA)]
              [] tag_raiz = "nfeproc" ->
                   LET protocolos == findall(root, "infProt")
                       ultimo_protocolo == protocolos[Len(protocolos)]
                       cstat == strip(childtext(ultimo_protocolo, "cStat", NA))
                       com_protocolo ==
                           IF protocolos # <<>>
                           THEN [dados EXCEPT
                                   !.tipo_documento = cli_mapear_cstat_para_tipo(cstat),
                                   !.status_code = cstat,
                                   !.status_text = strip(childtext(ultimo_protocolo, "xMotivo", NA)),
                                   !.chave_acesso =
                                       strip(childtext(ultimo_protocolo, "chNFe", INTERROGACAO))]
                           ELSE [dados EXCEPT
                                   !.tipo_documento = NFeSemProtocolo,
                                   !.erros = Append(@, SEM_PROTOCOLO)]
                       ide == find(root, "ide")
                   IN  IF ide # <<>>
                       THEN LET num == strip(childtext(ide[1], "nNF", INTERROGACAO))
                            IN  [com_protocolo EXCEPT
                                   !.numero_inicial = num,
                                   !.numero_final = num,
                                   !.modelo = strip(childtext(ide[1], "mod", INTERROGACAO)),
                                   !.serie = strip(childtext(ide[1], "serie", INTERROGACAO)),
                                   !.data_emissao =
                                       strip(childtext(ide[1], "dhEmi", INTERROGACAO))]
                       ELSE com_protocolo
              [] OTHER ->
                   [dados EXCEPT !.erros = Append(@, TipoNaoSuportado(file_content.root))]

\* int(dados.numero_inicial) or int(dados.numero_final) raises ValueError.
CliLevanta(dados) ==
    /\ isdigit(dados.numero_inicial)
    /\ \/ int(dados.numero_inicial) = ValueError
       \/ isdigit(dados.numero_final) /\ int(dados.numero_final) = ValueError

\* any(n in numeros_no_arquivo for n in NUMEROS_PARA_COPIAR)
CliSelecionada(dados) ==
    /\ isdigit(dados.numero_inicial)
    /\ ~CliLevanta(dados)
    /\ LET num_ini == int(dados.numero_inicial)
           num_fim == IF isdigit(dados.numero_final) THEN int(dados.numero_final) ELSE num_ini
           numeros_no_arquivo == range(num_ini, num_fim + 1)
       IN  \E n \in numeros_para_copiar : n \in numeros_no_arquivo

\* The test that sends a number to dados_por_serie.
CliNotaDeSerie(nota) ==
    nota.tipo_documento = NFeAutorizada /\ isdigit(nota.numero_inicial)

CliChavesDeSerie(lista) ==
    {<<lista[k].modelo, lista[k].serie>> :
        k \in {j \in 1..Len(lista) : CliNotaDeSerie(lista[j])}}

\* dados_por_serie[chave]
CliNumerosDaSerie(lista, chave) ==
    NumerosDasNotas(
        SelectSeq(lista, LAMBDA n : CliNotaDeSerie(n) /\ <<n.modelo, n.serie>> = chave))

\* One line of the sequence analysis of the summary.
CliAnaliseSerie(chave, numeros_da_serie) ==
    LET numeros == sorted_int(numeros_da_serie)
        min_n == numeros[1]
        max_n == numeros[Len(numeros)]
        esperado == range(min_n, max_n + 1)
        faltantes == sorted_set(esperado \ set(numeros))
    IN  [modelo |-> chave[1], serie |-> chave[2], documentos |-> Len(numeros),
         min_n |-> min_n, max_n |-> max_n, faltantes |-> Len(faltantes),
         lacunas |-> IF faltantes # <<>> THEN agrupar_lacunas(faltantes) ELSE <<>>]

RECURSIVE InsertByName(_, _)
InsertByName(x, s) ==
    IF s = <<>> THEN <<x>>
    ELSE IF x.arquivo_path < Head(s).arquivo_path THEN <<x>> \o s
    ELSE <<Head(s)>> \o InsertByName(x, Tail(s))

\* sorted(lista_dados, key=lambda d: d.arquivo_path.name)
RECURSIVE sorted_by_name(_)
sorted_by_name(s) ==
    IF s = <<>> THEN <<>>
    ELSE InsertByName(s[Len(s)], sorted_by_name(SubSeq(s, 1, Len(s) - 1)))

CliLinhaDaNota(nota) ==
    [arquivo_origem |-> nota.arquivo_path, tipo_documento |-> nota.tipo_documento,
     status_sefaz_cod |-> nota.status_code, status_sefaz_motivo |-> nota.status_text,
     numero_inicial |-> nota.numero_inicial, numero_final |-> nota.numero_final,
     serie |-> nota.serie, modelo |-> nota.modelo, data_emissao |-> nota.data_emissao,
     chave_acesso |-> nota.chave_acesso,
     foi_copiado |-> IF nota.foi_copiado THEN SIM ELSE NAO, erros |-> nota.erros]

\* [raised, resumo, csv] of the variant's gerar_relatorios.  The table of the
\* copied files is kept as the set of their names; the time stamp and the
\* folder name of the summary are left out.
cli_gerar_relatorios(lista_dados) ==
    LET chaves == sorted_keys(CliChavesDeSerie(lista_dados))
        arquivos_desconhecidos ==
            SelectSeq(lista_dados, LAMBDA d : d.tipo_documento = Desconhecido)
        ordenadas == sorted_by_name(lista_dados)
    IN  IF \E k \in 1..Len(lista_dados) :
              CliNotaDeSerie(lista_dados[k]) /\ int(lista_dados[k].numero_inicial) = ValueError
        THEN [raised |-> VALUE_ERROR_INT, resumo |-> NoResumo, csv |-> NoCsv]
        ELSE [raised |-> NENHUM,
              resumo |->
                  [exists |-> TRUE, complete |-> TRUE, total_xmls |-> Len(lista_dados),
                   status |-> ContagemStatus(lista_dados),
                   desconhecidos |->
                       [k \in 1..Len(arquivos_desconhecidos) |->
                           [arquivo |-> arquivos_desconhecidos[k].arquivo_path,
                            erros |-> arquivos_desconhecidos[k].erros]],
                   series |->
                       [k \in 1..Len(chaves) |->
                           CliAnaliseSerie(chaves[k], CliNumerosDaSerie(lista_dados, chaves[k]))],
                   copiados |->
                       {lista_dados[k].arquivo_path :
                           k \in {j \in 1..Len(lista_dados) : lista_dados[j].foi_copiado}}],
              csv |-> [exists |-> TRUE, complete |-> TRUE,
                       rows |-> [k \in 1..Len(ordenadas) |-> CliLinhaDaNota(ordenadas[k])]]]

\* The environment of a run: the two folders, the files under the source
\* folder and NUMEROS_PARA_COPIAR as written in .env.
CliRuns ==
    [kind : {"cli"}, PASTA_ORIGEM : {"dir"}, PASTA_DESTINO : {"dir", "", "bloqueada"},
     entries : Batches, NUMEROS_RAW : RawNumeros]
    \cup [kind : {"cli"}, PASTA_ORIGEM : {"inexistente"}, PASTA_DESTINO : {"dir", ""},
          entries : {<<>>}, NUMEROS_RAW : RawNumeros]

CliPcs ==
    {"cli_import", "cli_main", "cli_loop", "cli_relatorios", "cli_done", "cli_fatal",
     "cli_exit", "cli_traceback"}

CliInit ==
    /\ UnitIdle
    /\ pc = "cli_import"
    /\ request \in CliRuns
    /\ dirs = {}
    /\ xml_files_in_memory = <<>>
    /\ numeros_para_copiar = {}
    /\ futures = {}
    /\ lista_dados_notas = <<>>
    /\ idx = 0
    /\ pasta_copiados = <<>>
    /\ resumo = NoResumo
    /\ csv = NoCsv
    /\ zip = NoZip
    /\ raised = NENHUM
    /\ response = NoResponse

\* The module is loaded: NUMEROS_PARA_COPIAR = parse_numeros(NUMEROS_RAW),
\* outside any try.
CliImport ==
    /\ pc = "cli_import"
    /\ LET numeros == cli_parse_numeros(request.NUMEROS_RAW)
       IN  IF numeros.raised # NENHUM
           THEN /\ raised' = numeros.raised
                /\ pc' = "cli_traceback"
                /\ UNCHANGED numeros_para_copiar
           ELSE /\ numeros_para_copiar' = numeros.numeros
                /\ pc' = "cli_main"
                /\ UNCHANGED raised
    /\ UNCHANGED <<unit, request, dirs, xml_files_in_memory, futures, lista_dados_notas,
                   idx, pasta_copiados, resumo, csv, zip, response>>

\* analisar_e_copiar_xmls up to the loop: validar_configuracao,
\* criar_pasta_destino and the search for the .xml files.
CliMain ==
    /\ pc = "cli_main"
    /\ IF request.PASTA_ORIGEM # "dir" \/ request.PASTA_DESTINO = ""
       THEN /\ pc' = "cli_exit"
            /\ UNCHANGED <<dirs, xml_files_in_memory, futures>>
       ELSE IF request.PASTA_DESTINO = "bloqueada"
       THEN /\ pc' = "cli_exit"
            /\ UNCHANGED <<dirs, xml_files_in_memory, futures>>
       ELSE /\ dirs' = dirs \cup {"PASTA_DESTINO"}
            /\ xml_files_in_memory' = request.entries
            /\ futures' = DOMAIN request.entries
            /\ pc' = IF DOMAIN request.entries = {} THEN "cli_done" ELSE "cli_loop"
    /\ UNCHANGED <<unit, request, numeros_para_copiar, lista_dados_notas, idx,
                   pasta_copiados, resumo, csv, zip, raised, response>>

\* One turn of the loop over the files found, which come in the order of
\* the directory listing.
CliArquivo(arquivo) ==
    /\ pc = "cli_loop"
    /\ arquivo \in futures
    /\ LET dados == obter_dados_xml(arquivo, xml_files_in_memory[arquivo])
           resto == futures \ {arquivo}
           segue == IF resto = {} THEN "cli_relatorios" ELSE pc
       IN  \/ /\ CliLevanta(dados)
              /\ raised' = VALUE_ERROR_INT
              /\ pc' = "cli_fatal"
              /\ UNCHANGED <<futures, lista_dados_notas, pasta_copiados>>
           \/ /\ ~CliLevanta(dados)
              /\ ~CliSelecionada(dados)
              /\ lista_dados_notas' = Append(lista_dados_notas, dados)
              /\ futures' = resto
              /\ pc' = segue
              /\ UNCHANGED <<pasta_copiados, raised>>
           \/ /\ CliSelecionada(dados)
              /\ futures' = resto
              /\ pc' = segue
              /\ UNCHANGED raised
              /\ \E outcome \in WriteOutcomes :
                    CASE outcome = "written" ->
                           /\ pasta_copiados' =
                                  (arquivo :> xml_files_in_memory[arquivo]) @@ pasta_copiados
                           /\ lista_dados_notas' =
                                  Append(lista_dados_notas, [dados EXCEPT !.foi_copiado = TRUE])
                      [] outcome = "open_failed" ->
                           /\ UNCHANGED pasta_copiados
                           /\ lista_dados_notas' = Append(lista_dados_notas, dados)
                      [] outcome = "write_failed" ->
                           /\ pasta_copiados' = (arquivo :> Truncated) @@ pasta_copiados
                           /\ lista_dados_notas' = Append(lista_dados_notas, dados)
    /\ UNCHANGED <<unit, request, dirs, xml_files_in_memory, numeros_para_copiar, idx,
                   resumo, csv, zip, response>>

\* The call of gerar_relatorios after the loop.
CliGerarRelatorios ==
    /\ pc = "cli_relatorios"
    /\ LET r == cli_gerar_relatorios(lista_dados_notas)
       IN  /\ resumo' = r.resumo
           /\ csv' = r.csv
           /\ raised' = r.raised
           /\ pc' = IF r.raised = NENHUM THEN "cli_done" ELSE "cli_fatal"
    /\ UNCHANGED <<unit, request, dirs, xml_files_in_memory, numeros_para_copiar, futures,
                   lista_dados_notas, idx, pasta_copiados, zip, response>>

CliNext ==
    \/ CliImport
    \/ CliMain
    \/ \E arquivo \in Names : CliArquivo(arquivo)
    \/ CliGerarRelatorios

CliSpec == CliInit /\ [][CliNext]_vars

(***************************************************************************)
(* The repository as a whole: a run is a request to the API or a run of    *)
(* the stand-alone variant.                                                *)
(***************************************************************************)
ProgramInit == Init \/ CliInit

ProgramNext == Next \/ CliNext

ProgramSpec == ProgramInit /\ [][ProgramNext]_vars

(***************************************************************************)
(* Properties of the request pipeline.                                     *)
(***************************************************************************)
\* The copy loop has dealt with the k-th record.
Passed(k) ==
    /\ k \in 1..Len(lista_dados_notas)
    /\ pc \notin {"as_completed", "downloaded"}
    /\ pc = "copiar" => k < idx

IsDecimalString(s) == Len(s) > 0 /\ \A k \in 1..Len(s) : s[k] \in DecimalChars

IsCopied(nota) ==
    /\ nota.foi_copiado
    /\ nota.arquivo_path \in DOMAIN pasta_copiados
    /\ pasta_copiados[nota.arquivo_path] = xml_files_in_memory[nota.arquivo_path]

\* C5: once the copy loop has dealt with a record whose number_start is a
\* digit string with a value in the targets (0 included), and the write did
\* not fail, the record is marked copied and its original bytes lie in the
\* copy area under its name.
C5_TargetsAreCopied ==
    \A k \in 1..Len(lista_dados_notas) :
        LET nota == lista_dados_notas[k]
        IN  (/\ Passed(k)
             /\ IsDecimalString(nota.numero_inicial)
             /\ DecimalFold(nota.numero_inicial, 0) \in numeros_para_copiar
             /\ FALHA_AO_COPIAR \notin {nota.erros[j] : j \in 1..Len(nota.erros)})
            => IsCopied(nota)

RunStarted == futures # {} \/ lista_dados_notas # <<>>

\* C7: with a non-empty batch run_analysis never ends in an exception: a
\* record is extracted for every input, and once the reports are
\* generated both are complete and the summary counts the records with errors.
C7_BatchNeverAborts ==
    RunStarted =>
        /\ pc # "except"
        /\ pc \notin {"as_completed"} => Len(lista_dados_notas) = Cardinality(DOMAIN xml_files_in_memory)
        /\ pc \in {"zip", "return", "responded"} =>
              /\ resumo.complete
              /\ csv.complete
              /\ resumo.com_erro =
                     Cardinality({k \in 1..Len(lista_dados_notas) :
                                     lista_dados_notas[k].erros # <<>>})

\* C8: an upload without any XML file is turned away by run_analysis before
\* it makes a directory, extracts, copies or writes anything, and the
\* request is answered 400 with the reason.
C8_EmptyBatchRejectedFirst ==
    /\ (pc \notin {"request"} /\ xml_files_in_memory = <<>>) =>
          /\ pc \in {"run_analysis", "except", "responded"}
          /\ dirs \subseteq {"result_dir"}
          /\ futures = {}
          /\ lista_dados_notas = <<>>
          /\ pasta_copiados = <<>>
          /\ resumo = NoResumo
          /\ csv = NoCsv
          /\ zip = NoZip
          /\ pc = "except" => raised = VALUE_ERROR_VAZIO
    /\ raised = VALUE_ERROR_VAZIO =>
          /\ xml_files_in_memory = <<>>
          /\ pc \in {"except", "responded"}
          /\ pc = "except" => response = NoResponse
          /\ pc = "responded" => response = Erro(400, VALUE_ERROR_VAZIO)

C8_Witness ==
    /\ pc = "responded"
    /\ raised = VALUE_ERROR_VAZIO
    /\ response = Erro(400, VALUE_ERROR_VAZIO)
    /\ dirs = {"result_dir"}
    /\ numeros_para_copiar = {0, 1}

\* C9: the detailed report holds exactly one row per record, ordered by
\* source name.
C9_OneRowPerRecord ==
    csv.complete =>
        /\ Len(csv.rows) = Len(lista_dados_notas)
        /\ \A k \in 1..(Len(csv.rows) - 1) :
               csv.rows[k].arquivo_origem < csv.rows[k + 1].arquivo_origem
        /\ {csv.rows[k].arquivo_origem : k \in 1..Len(csv.rows)}
               = {lista_dados_notas[k].arquivo_path : k \in 1..Len(lista_dados_notas)}

Permuted(s, p) == [k \in 1..Len(s) |-> s[p[k]]]

\* C10: the reports are the same for every order in which the extraction
\* tasks may have completed.
C10_ReportsIgnoreOrder ==
    (pc = "zip" /\ csv.complete) =>
        \A p \in Permutations(1..Len(lista_dados_notas)) :
            LET r == gerar_relatorios(Permuted(lista_dados_notas, p))
            IN  /\ r.resumo.status = resumo.status
                /\ r.resumo.series = resumo.series
                /\ r.csv.rows = csv.rows

\* C11: the job directory of every analyze request, answered 200 or not, is
\* eventually removed (unless the removal itself fails).
C11_JobDirEventuallyRemoved ==
    [](("result_dir" \in dirs) => <>(dirs = {} \/ pc = "cleanup_failed"))

(***************************************************************************)
(* Properties of the grouping and of the extraction.                       *)
(***************************************************************************)
\* The grouping key is complete: authorized, model and series non-empty,
\* number_start a digit string.
CompleteKey(nota) ==
    /\ nota.tipo_documento = NFeAutorizada
    /\ nota.modelo # <<>>
    /\ nota.serie # <<>>
    /\ isdigit(nota.numero_inicial)

\* The records with a complete key that carry the key (modelo, serie).
GroupMembers(modelo, serie) ==
    {k \in 1..Len(lista_dados_notas) :
        /\ CompleteKey(lista_dados_notas[k])
        /\ lista_dados_notas[k].modelo = modelo
        /\ lista_dados_notas[k].serie = serie}

GroupNumbers(modelo, serie) ==
    {int(lista_dados_notas[k].numero_inicial) : k \in GroupMembers(modelo, serie)}

\* What a series line of either summary says about its group.
LineCount(line) == IF "analise" \in DOMAIN line THEN line.analise.qtde ELSE line.documentos
LineMin(line) == IF "analise" \in DOMAIN line THEN line.analise.min_n ELSE line.min_n
LineMax(line) == IF "analise" \in DOMAIN line THEN line.analise.max_n ELSE line.max_n
LineLacunas(line) == IF "analise" \in DOMAIN line THEN line.analise.lacunas ELSE line.lacunas

\* C12: the series lines of a complete summary are the (model, series) keys
\* of the records with a complete key, and each line analyses exactly the
\* number_start values of the records with its key.
C12_GroupsOnlyCompleteKeys ==
    resumo.complete =>
        /\ {<<resumo.series[j].modelo, resumo.series[j].serie>> : j \in 1..Len(resumo.series)}
              = {<<lista_dados_notas[k].modelo, lista_dados_notas[k].serie>> :
                    k \in {i \in 1..Len(lista_dados_notas) : CompleteKey(lista_dados_notas[i])}}
        /\ \A j \in 1..Len(resumo.series) :
              LET line == resumo.series[j]
                  numbers == GroupNumbers(line.modelo, line.serie)
                  missing == (LineMin(line)..LineMax(line)) \ numbers
              IN  /\ LineCount(line) = Cardinality(GroupMembers(line.modelo, line.serie))
                  /\ numbers # {}
                  /\ \A n \in numbers : LineMin(line) <= n /\ n <= LineMax(line)
                  /\ LineMin(line) \in numbers
                  /\ LineMax(line) \in numbers
                  /\ LineLacunas(line) =
                        IF missing = {} THEN <<>> ELSE agrupar_lacunas(sorted_set(missing))

\* The records extracted from a buffer that fails XML parsing.
MalformedRecords ==
    {k \in 1..Len(lista_dados_notas) :
        /\ lista_dados_notas[k].arquivo_path \in DOMAIN xml_files_in_memory
        /\ ~xml_files_in_memory[lista_dados_notas[k].arquivo_path].wf}

ParseFailureNotes == {XML_INVALIDO, XML_MALFORMADO}

\* The row of a file in the detailed report, if any.
RowsOf(arquivo) == {j \in 1..Len(csv.rows) : csv.rows[j].arquivo_origem = arquivo}

\* The number columns of a row of either detailed report.
RowNumbers(row) ==
    IF "numero_nota" \in DOMAIN row THEN {row.numero_nota}
    ELSE {row.numero_inicial, row.numero_final}

\* Number, series, model, date and access key empty, the Unknown label, and
\* one parse-failure note.
EmptyButForStatus(nota) ==
    /\ nota.tipo_documento = Desconhecido
    /\ nota.numero_inicial = <<>>
    /\ nota.numero_final = <<>>
    /\ nota.serie = <<>>
    /\ nota.modelo = <<>>
    /\ nota.data_emissao = <<>>
    /\ nota.chave_acesso = <<>>
    /\ ~nota.foi_copiado
    /\ Len(nota.erros) = 1
    /\ nota.erros[1] \in ParseFailureNotes

RowEmptyButForStatus(row) ==
    /\ RowNumbers(row) = {<<>>}
    /\ row.serie = <<>>
    /\ row.modelo = <<>>
    /\ row.erros # <<>>

\* C13 (as stated): the record of a buffer that fails parsing has the Unknown
\* label, every other field empty, the status code and reason included, and
\* a parse-failure note; its row has empty number and status columns.
C13_ParseFailureAllEmpty ==
    \A k \in MalformedRecords :
        LET nota == lista_dados_notas[k]
        IN  /\ EmptyButForStatus(nota)
            /\ nota.status_code = <<>>
            /\ nota.status_text = <<>>
            /\ csv.complete =>
                  /\ RowsOf(nota.arquivo_path) # {}
                  /\ \A j \in RowsOf(nota.arquivo_path) :
                        /\ RowEmptyButForStatus(csv.rows[j])
                        /\ csv.rows[j].status_sefaz_cod = <<>>
                        /\ csv.rows[j].status_sefaz_motivo = <<>>

\* C13 (amended): the record of a buffer that fails parsing has the Unknown
\* label, empty number, series, model, date and access key, the placeholder
\* "N/A" as status code and reason, and one parse-failure note; its row has
\* empty number, series and model columns, "N/A" in both status columns and
\* a non-empty errors column.
C13_ParseFailureKeepsDefaults ==
    \A k \in MalformedRecords :
        LET nota == lista_dados_notas[k]
        IN  /\ EmptyButForStatus(nota)
            /\ nota.status_code = NA
            /\ nota.status_text = NA
            /\ csv.complete =>
                  /\ Cardinality(RowsOf(nota.arquivo_path)) = 1
                  /\ \A j \in RowsOf(nota.arquivo_path) :
                        /\ RowEmptyButForStatus(csv.rows[j])
                        /\ csv.rows[j].tipo_documento = Desconhecido
                        /\ csv.rows[j].status_sefaz_cod = NA
                        /\ csv.rows[j].status_sefaz_motivo = NA

\* Both variants have reported a batch with a malformed file.
C13_Witness ==
    /\ csv.complete
    /\ MalformedRecords # {}
    /\ Len(lista_dados_notas) = 2
    /\ \E k \in MalformedRecords :
          \E j \in RowsOf(lista_dados_notas[k].arquivo_path) :
              csv.rows[j].status_sefaz_cod = NA /\ csv.rows[j].erros # <<>>

\* The records extracted from a well-formed authorization envelope.
EnvelopeRecords ==
    {k \in 1..Len(lista_dados_notas) :
        /\ lista_dados_notas[k].arquivo_path \in DOMAIN xml_files_in_memory
        /\ xml_files_in_memory[lista_dados_notas[k].arquivo_path].wf
        /\ lower(xml_files_in_memory[lista_dados_notas[k].arquivo_path].root) = "nfeproc"}

\* The protocol blocks of the file of a record, in document order.
ProtocolBlocks(nota) == findall(xml_files_in_memory[nota.arquivo_path].blocks, "infProt")

\* C14: the record of an authorization envelope takes its status code and
\* reason from the last protocol block, and is classified by that code; an
\* envelope without any protocol block is classified "no protocol" and
\* carries an error.
C14_LastProtocolWins ==
    \A k \in EnvelopeRecords :
        LET nota == lista_dados_notas[k]
            protocolos == ProtocolBlocks(nota)
            ultimo == protocolos[Len(protocolos)]
        IN  IF protocolos # <<>>
            THEN /\ nota.status_code = strip(ultimo.kids["cStat"])
                 /\ nota.status_text = strip(ultimo.kids["xMotivo"])
                 /\ nota.tipo_documento = _mapear_cstat_para_tipo(strip(ultimo.kids["cStat"]))
            ELSE /\ nota.tipo_documento = NFeSemProtocolo
                 /\ nota.erros # <<>>

\* The records extracted from a well-formed document of another root kind.
OtherKindRecords ==
    {k \in 1..Len(lista_dados_notas) :
        /\ lista_dados_notas[k].arquivo_path \in DOMAIN xml_files_in_memory
        /\ xml_files_in_memory[lista_dados_notas[k].arquivo_path].wf
        /\ lower(xml_files_in_memory[lista_dados_notas[k].arquivo_path].root)
              \notin {"procinutnfe", "nfeproc"}}

Present(numero) == numero # <<>> /\ numero # INTERROGACAO

\* The record comes from a voiding document: the engine goes by the
\* label, the stand-alone extractor by the root element.
IsVoiding(nota) ==
    IF pc \in CliPcs
    THEN /\ xml_files_in_memory[nota.arquivo_path].wf
         /\ lower(xml_files_in_memory[nota.arquivo_path].root) = "procinutnfe"
    ELSE nota.tipo_documento = NFeInutilizada

\* C16 (as stated): in every record number_start and number_end, when
\* present, are decimal digit strings, number_end >= number_start when both
\* are present, and the two are equal in a record that is no voiding record.
C16_NumbersAreOrderedDigits ==
    \A k \in 1..Len(lista_dados_notas) :
        LET nota == lista_dados_notas[k]
        IN  /\ Present(nota.numero_inicial) => IsDecimalString(nota.numero_inicial)
            /\ Present(nota.numero_final) => IsDecimalString(nota.numero_final)
            /\ (Present(nota.numero_inicial) /\ Present(nota.numero_final)
                 /\ IsDecimalString(nota.numero_inicial) /\ IsDecimalString(nota.numero_final))
                  => DecimalFold(nota.numero_final, 0) >= DecimalFold(nota.numero_inicial, 0)
            /\ ~IsVoiding(nota) => nota.numero_final = nota.numero_inicial

\* The text of <nNF> in the first <ide> block of a file, as the variant reads it.
TextOfNNF(file_content) ==
    LET ide == find(file_content.blocks, "ide")
        nNF == IF "nNF" \in DOMAIN ide[1].kids THEN ide[1].kids["nNF"] ELSE <<>>
    IN  IF pc \in CliPcs
        THEN (IF "nNF" \in DOMAIN ide[1].kids THEN strip(nNF) ELSE INTERROGACAO)
        ELSE nNF

\* C16 (amended): the number fields are the text of the document, not
\* validated; in a record that is no voiding record number_end equals
\* number_start, and both are the text of <nNF> when the document has an
\* <ide> block (in the stand-alone variant, of an authorization envelope).
C16_NumbersAreDocumentText ==
    \A k \in 1..Len(lista_dados_notas) :
        LET nota == lista_dados_notas[k]
            file_content == xml_files_in_memory[nota.arquivo_path]
            le_ide == /\ file_content.wf
                      /\ find(file_content.blocks, "ide") # <<>>
                      /\ (pc \in CliPcs => lower(file_content.root) = "nfeproc")
        IN  ~IsVoiding(nota) =>
               /\ nota.numero_final = nota.numero_inicial
               /\ le_ide => nota.numero_inicial = TextOfNNF(file_content)
               /\ ~le_ide => nota.numero_inicial = <<>>

\* A record numbered "a" next to a voiding request for 3..1.
C16_Witness ==
    /\ pc = "cli_done"
    /\ \E j, k \in 1..Len(lista_dados_notas) :
          /\ lista_dados_notas[j].numero_inicial = <<"a">>
          /\ lista_dados_notas[j].numero_final = <<"a">>
          /\ lista_dados_notas[k].numero_inicial = <<"3">>
          /\ lista_dados_notas[k].numero_final = <<"1">>

(***************************************************************************)
(* Properties of the copy step.                                            *)
(***************************************************************************)
\* The copy step has dealt with the k-th record, in either variant.
Reached(k) == IF pc \in CliPcs THEN k \in 1..Len(lista_dados_notas) ELSE Passed(k)

\* The variant's own test says the record is to be copied.
SelectedForCopy(nota) == IF pc \in CliPcs THEN CliSelecionada(nota) ELSE Selecionada(nota)

HasCopyError(nota) == \E j \in 1..Len(nota.erros) : nota.erros[j] = FALHA_AO_COPIAR

\* C17: every selected record the copy step has dealt with is either copied
\* and marked, or, its write having failed, unmarked with the failure in
\* its errors; one failure stops neither the run nor the other copies.
C17_CopyFailureIsRecorded ==
    \A k \in 1..Len(lista_dados_notas) :
        LET nota == lista_dados_notas[k]
        IN  (Reached(k) /\ SelectedForCopy(nota))
            => \/ IsCopied(nota) /\ ~HasCopyError(nota)
               \/ ~nota.foi_copiado /\ HasCopyError(nota)

\* run_analysis is under way or has returned, and the job directory is
\* still there.
InRunAnalysis == pc \in {"as_completed", "copiar", "gerar_relatorios", "zip", "return",
                         "responded", "except", "cleanup_failed"}

CopiedNames ==
    {lista_dados_notas[k].arquivo_path :
        k \in {j \in 1..Len(lista_dados_notas) : lista_dados_notas[j].foi_copiado}}

\* A record is marked only once its file holds the original bytes, no
\* record is marked before the copy step reaches it, and the archive holds
\* under xmls_copiados/ exactly the files of the marked records.
CopiedFlagMatchesFiles ==
    InRunAnalysis =>
        /\ \A k \in 1..Len(lista_dados_notas) :
              /\ lista_dados_notas[k].foi_copiado => IsCopied(lista_dados_notas[k])
              /\ (pc = "as_completed" \/ (pc = "copiar" /\ k >= idx))
                    => ~lista_dados_notas[k].foi_copiado
        /\ zip.exists => DOMAIN zip.xmls_copiados = CopiedNames

\* A mark, once set, is not taken back.
CopiedFlagNeverReset ==
    \A k \in 1..Len(lista_dados_notas) :
        lista_dados_notas[k].foi_copiado =>
            /\ k \in 1..Len(lista_dados_notas')
            /\ lista_dados_notas'[k].foi_copiado

\* C18: in run_analysis was_copied is true only for a record whose file
\* with the original bytes is already in the copy area, false until the
\* copy step reaches the record and never reset, and the files under
\* xmls_copiados/ of the archive are exactly those of the marked records.
C18_CopiedFlagTracksCopyArea ==
    [](CopiedFlagMatchesFiles) /\ [][CopiedFlagNeverReset]_vars

====
